---- MODULE Spec2Model ----
(***************************************************************************)
(* The egui / winit / vulkano integration object `Gui` of                  *)
(* src/integration.rs as a state machine.                                  *)
(*                                                                         *)
(* The five data fields of `Gui` are the variables egui_ctx, egui_winit,   *)
(* renderer, shapes and textures_delta.  Every public method of `Gui` is   *)
(* an operator from a session record (the five fields) to a result record  *)
(* (the session afterwards, the panic message if the method panicked, the  *)
(* returned value and the calls it made on its collaborators, in order),   *)
(* and one action of the state machine.  A panic is fatal: the process     *)
(* stops, so no action is enabled once status = "panicked".                *)
(*                                                                         *)
(* egui::Context and egui_winit::State are libraries; they are modelled    *)
(* by what their called methods hand over (input taken, shapes and         *)
(* texture delta drained, platform output applied).  The renderer and the  *)
(* texture helpers are crate code outside integration.rs.                  *)
(***************************************************************************)
EXTENDS Integers, Sequences, FiniteSets, TLC

\* ---------------------------------------------------------------- bounds
MaxShapes == 1      \* shapes painted between two frame-ends
MaxTextures == 1    \* texture changes requested between two frame-ends
MaxEvents == 1      \* window events forwarded between two frame-begins
MaxImages == 2      \* user images registered per run

\* ------------------------------------------------------------- constants
B8G8R8A8_SRGB == "B8G8R8A8_SRGB"
R8G8B8A8_UNORM == "R8G8B8A8_UNORM"
NoFormat == "None"
Formats == {B8G8R8A8_SRGB, R8G8B8A8_UNORM}
\* Option<Format> of a target image view
TargetFormats == Formats \cup {NoFormat}

MsgSwapchainFormat == "Swapchain format does not support B8G8R8A8_SRGB"
MsgUnwrapErr == "called Result unwrap on an Err value"
MsgUseSubpass == "Gui integration has been created with subpass, use draw_on_subpass_image instead"
MsgUseImage == "Gui integration has been created with its own render pass, use draw_on_image instead"
MsgTargetFormat == "Render target image color format is wrong"
MsgCreateImage == "Failed to create image"
NoPanic == "none"

WindowEvents == {"Tab"}
Images == {"image_view"}
\* encoded image files and raw pixel buffers handed to the register calls
ImageFiles == {"valid_png", "corrupt_png"}
RawBuffers == {"raw_2x2", "raw_short"}
\* what a layout closure (or the caller between begin_frame and draw) does
UiCalls == {"noop", "shape", "texture", "cursor"}
Layouts == UiCalls \cup {"draw"}

\* ------------------------------------------------------------- variables
VARIABLES
    surface,        \* the surface: the result of the surface_formats query
    device,         \* the physical device properties
    status,         \* "unconstructed", "ok" or "panicked"
    ctor,           \* the constructor that built the session
    egui_ctx,       \* Gui.egui_ctx
    egui_winit,     \* Gui.egui_winit
    renderer,       \* Gui.renderer
    shapes,         \* Gui.shapes: the pending shape buffer
    textures_delta, \* Gui.textures_delta: the pending texture-delta buffer
    last,           \* the last public call (or GPU completion): its name and
                    \* argument, the frame state it started in, its panic or
                    \* result, the calls it made on its collaborators and what it
                    \* handed to the renderer
    gpu_future      \* the GPU work behind the future draw_on_image returned last:
                    \* "none", "in_flight" or "signalled"

vars == <<surface, device, status, ctor, egui_ctx, egui_winit, renderer,
          shapes, textures_delta, last, gpu_future>>

\* ------------------------------------------------------- result records
Ret(kind, val) == [kind |-> kind, val |-> val]
Unit == Ret("unit", 0)

\* what the renderer was handed by a call that did not draw
NotDrawn ==
    [called |-> FALSE, meshes |-> <<>>, delta |-> <<>>, after |-> "none",
     target |-> [format |-> NoFormat]]

Returns(gui, ret, calls) ==
    [gui |-> gui, panic |-> NoPanic, ret |-> ret, calls |-> calls, drawn |-> NotDrawn]

Panics(gui, msg, calls) ==
    [gui |-> gui, panic |-> msg, ret |-> Ret("never", 0), calls |-> calls,
     drawn |-> NotDrawn]

\* --------------------------------------------------------- egui::Context
\* Default::default(): no frame begun, nothing painted, nothing requested.
Context_default ==
    [frame |-> "NoFrameYet", \* "NoFrameYet", "FrameOpen" or "FrameClosed"
     input |-> <<>>,        \* the raw input of the frame in progress
     graphics |-> <<>>,     \* shapes painted since the last end_frame
     tex_delta |-> <<>>,    \* texture changes since the last end_frame
     output |-> "Default"]  \* cursor icon requested since the last end_frame

\* Context::begin_frame(raw_input): the context takes the input and opens a frame.
Context_begin_frame(ctx, raw_input) ==
    [ctx EXCEPT !.frame = "FrameOpen", !.input = raw_input]

\* Context::end_frame(): closes the frame and hands over everything accumulated
\* since the previous end_frame, leaving the context's own lists empty.
Context_end_frame(ctx) ==
    [ctx |-> [ctx EXCEPT !.frame = "FrameClosed", !.graphics = <<>>,
                         !.tex_delta = <<>>, !.output = "Default"],
     platform_output |-> ctx.output,
     textures_delta |-> ctx.tex_delta,
     shapes |-> ctx.graphics]

\* Context::tessellate(shapes): one clipped primitive per shape, in order.
Context_tessellate(shape_list) ==
    [i \in 1..Len(shape_list) |-> [mesh_of |-> shape_list[i]]]

\* The calls a layout closure or the caller makes on the context.
Context_ui(ctx, call) ==
    CASE call = "shape" ->
           [ctx EXCEPT !.graphics = Append(@, [shape |-> Len(@) + 1])]
      [] call = "texture" ->
           [ctx EXCEPT !.tex_delta = Append(@, [set_texture |-> Len(@) + 1])]
      [] call = "cursor" ->
           [ctx EXCEPT !.output = "PointingHand"]
      [] OTHER -> ctx

\* ----------------------------------------------------- egui_winit::State
State_absent ==
    [created |-> FALSE, max_texture_side |-> "none", events |-> <<>>,
     cursor |-> "Default"]

\* State::new(max_texture_side, window)
State_new(max_texture_side) ==
    [State_absent EXCEPT !.created = TRUE, !.max_texture_side = max_texture_side]

\* State::on_event: the event joins the raw input of the next frame; the
\* returned flag says whether egui wants the event for itself (always for Tab).
State_on_event(st, ctx, ev) ==
    [st |-> [st EXCEPT !.events = Append(@, ev)],
     consumed |-> IF ev = "Tab" THEN 1 ELSE 0]

\* State::take_egui_input: returns the accumulated raw input and leaves none.
State_take_egui_input(st) ==
    [st |-> [st EXCEPT !.events = <<>>], raw_input |-> st.events]

\* State::handle_platform_output: applies the requests to the window.
State_handle_platform_output(st, platform_output) ==
    [st EXCEPT !.cursor = platform_output]

\* State::pixels_per_point
State_pixels_per_point(st) == "ppp_of_window"

\* -------------------------------------------------------------- Renderer
Renderer_absent ==
    [created |-> FALSE, has_renderpass |-> FALSE,
     texture_images |-> {},     \* the registered user images: id and image
     next_native_tex_id |-> 0]

\* Renderer::new_with_render_pass(gfx_queue, format, is_overlay)
Renderer_new_with_render_pass(format, is_overlay) ==
    [Renderer_absent EXCEPT !.created = TRUE, !.has_renderpass = TRUE]

\* Renderer::new_with_subpass(gfx_queue, format, subpass)
Renderer_new_with_subpass(format) ==
    [Renderer_absent EXCEPT !.created = TRUE, !.has_renderpass = FALSE]

\* Renderer::has_renderpass
Renderer_has_renderpass(r) == r.has_renderpass

\* Renderer::draw_on_image: applies the texture delta, draws the meshes on the
\* target after before_future and returns the future of that work.
Renderer_draw_on_image(r, clipped_meshes, delta, ppp, before_future, final_image) ==
    [r |-> r,
     drawn |-> [called |-> TRUE, meshes |-> clipped_meshes, delta |-> delta,
                after |-> before_future, target |-> final_image],
     ret |-> Ret("future", 0)]

\* Renderer::draw_on_subpass_image: applies the texture delta and records the
\* commands that draw the meshes, for the caller to execute.
Renderer_draw_on_subpass_image(r, clipped_meshes, delta, ppp, image_dimensions) ==
    [r |-> r,
     drawn |-> [called |-> TRUE, meshes |-> clipped_meshes, delta |-> delta,
                after |-> "none", target |-> image_dimensions],
     ret |-> Ret("command_buffer", 0)]

\* Renderer::register_image: a fresh user texture id for the image.
Renderer_register_image(r, image) ==
    [r |-> [r EXCEPT !.texture_images = @ \cup {[id |-> r.next_native_tex_id, image |-> image]},
                     !.next_native_tex_id = @ + 1],
     ret |-> Ret("texture_id", r.next_native_tex_id)]

\* Renderer::unregister_image: forgets the image of this id, and no other.
Renderer_unregister_image(r, texture_id) ==
    [r EXCEPT !.texture_images = {t \in @ : t.id # texture_id}]

\* utils::immutable_texture_from_file: decodes the file and uploads the pixels.
immutable_texture_from_file(image_file_bytes, upload_ok) ==
    IF image_file_bytes = "valid_png" /\ upload_ok
    THEN [ok |-> TRUE, image |-> "immutable_image"]
    ELSE [ok |-> FALSE, image |-> "none"]

\* utils::immutable_texture_from_bytes: uploads raw pixels of the given size.
immutable_texture_from_bytes(image_byte_data, upload_ok) ==
    IF image_byte_data = "raw_2x2" /\ upload_ok
    THEN [ok |-> TRUE, image |-> "immutable_image"]
    ELSE [ok |-> FALSE, image |-> "none"]

\* ------------------------------------------------------------------- Gui
\* The session before construction, and what is left when construction panics.
NoGui ==
    [egui_ctx |-> Context_default, egui_winit |-> State_absent,
     renderer |-> Renderer_absent, shapes |-> <<>>, textures_delta |-> <<>>]

\* Variant with a bug: the renderer is built before the surface format is checked.
Gui_new_renderer_first(surf, dev, is_overlay) ==
    LET format == B8G8R8A8_SRGB
        rend == Renderer_new_with_render_pass(format, is_overlay)
    IN
    IF ~surf.query_ok
    THEN Panics(NoGui, MsgUnwrapErr, <<"surface_formats">>)
    ELSE IF ~(\E f \in surf.formats : f = format)
    THEN Panics([NoGui EXCEPT !.renderer = rend], MsgSwapchainFormat,
                <<"Renderer::new_with_render_pass", "surface_formats">>)
    ELSE Returns([egui_ctx |-> Context_default,
                  egui_winit |-> State_new(dev.max_image_array_layers),
                  renderer |-> rend,
                  shapes |-> <<>>,
                  textures_delta |-> <<>>],
                 Ret("gui", 0),
                 <<"Renderer::new_with_render_pass", "surface_formats", "State::new">>)

\* Gui::new(surface, gfx_queue, is_overlay)
Gui_new(surf, dev, is_overlay) ==
    LET format == B8G8R8A8_SRGB IN
    IF ~surf.query_ok
    THEN Panics(NoGui, MsgUnwrapErr, <<"surface_formats">>)
    ELSE IF ~(\E f \in surf.formats : f = format)
    THEN Panics(NoGui, MsgSwapchainFormat, <<"surface_formats">>)
    ELSE LET max_texture_side == dev.max_image_array_layers
             rend == Renderer_new_with_render_pass(format, is_overlay)
         IN  Returns([egui_ctx |-> Context_default,
                      egui_winit |-> State_new(max_texture_side),
                      renderer |-> rend,
                      shapes |-> <<>>,
                      textures_delta |-> <<>>],
                     Ret("gui", 0),
                     <<"surface_formats", "Renderer::new_with_render_pass", "State::new">>)

\* Variant with a bug: new_with_subpass pasted from new, building the renderer
\* with its own render pass.
Gui_new_with_subpass_pasted(surf, dev) ==
    Gui_new(surf, dev, FALSE)

\* Gui::new_with_subpass(surface, gfx_queue, subpass)
Gui_new_with_subpass(surf, dev) ==
    LET format == B8G8R8A8_SRGB IN
    IF ~surf.query_ok
    THEN Panics(NoGui, MsgUnwrapErr, <<"surface_formats">>)
    ELSE IF ~(\E f \in surf.formats : f = format)
    THEN Panics(NoGui, MsgSwapchainFormat, <<"surface_formats">>)
    ELSE LET max_texture_side == dev.max_image_array_layers
             rend == Renderer_new_with_subpass(format)
         IN  Returns([egui_ctx |-> Context_default,
                      egui_winit |-> State_new(max_texture_side),
                      renderer |-> rend,
                      shapes |-> <<>>,
                      textures_delta |-> <<>>],
                     Ret("gui", 0),
                     <<"surface_formats", "Renderer::new_with_subpass", "State::new">>)

\* Variant with a bug: update feeds the event straight into a new frame.
update_begins_frame(self, winit_event) ==
    LET e == State_on_event(self.egui_winit, self.egui_ctx, winit_event)
        t == State_take_egui_input(e.st)
    IN  Returns([self EXCEPT !.egui_winit = t.st,
                             !.egui_ctx = Context_begin_frame(@, t.raw_input)],
                Ret("bool", e.consumed),
                <<"State::on_event", "State::take_egui_input", "Context::begin_frame">>)

\* Gui::update(winit_event)
update(self, winit_event) ==
    LET e == State_on_event(self.egui_winit, self.egui_ctx, winit_event)
    IN  Returns([self EXCEPT !.egui_winit = e.st], Ret("bool", e.consumed),
                <<"State::on_event">>)

\* Variant with a bug: the input is read for the frame but left in the input
\* bridge, where the next frame finds it again.
begin_frame_keeps_input(self) ==
    LET t == State_take_egui_input(self.egui_winit)
    IN  Returns([self EXCEPT !.egui_ctx = Context_begin_frame(@, t.raw_input)],
                Unit,
                <<"State::take_egui_input", "Context::begin_frame">>)

\* Variant with a bug: begin_frame does nothing while a frame is open.
begin_frame_if_idle(self) ==
    IF self.egui_ctx.frame = "FrameOpen"
    THEN Returns(self, Unit, <<>>)
    ELSE LET t == State_take_egui_input(self.egui_winit)
         IN  Returns([self EXCEPT !.egui_winit = t.st,
                                  !.egui_ctx = Context_begin_frame(@, t.raw_input)],
                     Unit,
                     <<"State::take_egui_input", "Context::begin_frame">>)

\* Gui::begin_frame()
begin_frame(self) ==
    LET t == State_take_egui_input(self.egui_winit)
    IN  Returns([self EXCEPT !.egui_winit = t.st,
                             !.egui_ctx = Context_begin_frame(@, t.raw_input)],
                Unit,
                <<"State::take_egui_input", "Context::begin_frame">>)

\* Variant with a bug: the shapes of the frame are not stored in the buffer.
end_frame_drops_shapes(self) ==
    LET out == Context_end_frame(self.egui_ctx)
        handled == State_handle_platform_output(self.egui_winit, out.platform_output)
    IN  [gui |-> [self EXCEPT !.egui_ctx = out.ctx,
                              !.egui_winit = handled,
                              !.textures_delta = out.textures_delta],
         calls |-> <<"Context::end_frame", "State::handle_platform_output",
                     "store textures_delta">>]

\* Variant with a bug: the platform output of the frame is dropped.
end_frame_without_platform_output(self) ==
    LET out == Context_end_frame(self.egui_ctx)
    IN  [gui |-> [self EXCEPT !.egui_ctx = out.ctx,
                              !.shapes = out.shapes,
                              !.textures_delta = out.textures_delta],
         calls |-> <<"Context::end_frame", "store shapes", "store textures_delta">>]

\* Gui::end_frame()
end_frame(self) ==
    LET out == Context_end_frame(self.egui_ctx)
        handled == State_handle_platform_output(self.egui_winit, out.platform_output)
    IN  [gui |-> [self EXCEPT !.egui_ctx = out.ctx,
                              !.egui_winit = handled,
                              !.shapes = out.shapes,
                              !.textures_delta = out.textures_delta],
         calls |-> <<"Context::end_frame", "State::handle_platform_output",
                     "store shapes", "store textures_delta">>]

\* Variant with a bug: the texture delta is cloned, not taken.
extract_draw_data_keeps_delta(self) ==
    LET ended == end_frame(self)
    IN  [gui |-> [ended.gui EXCEPT !.shapes = <<>>],
         clipped_meshes |-> Context_tessellate(ended.gui.shapes),
         textures_delta |-> ended.gui.textures_delta,
         calls |-> ended.calls \o
                   <<"take shapes", "take textures_delta", "Context::tessellate">>]

\* Variant with a bug: the buffers are cloned, not taken, and keep their contents.
extract_draw_data_cloned(self) ==
    LET ended == end_frame(self)
    IN  [gui |-> ended.gui,
         clipped_meshes |-> Context_tessellate(ended.gui.shapes),
         textures_delta |-> ended.gui.textures_delta,
         calls |-> ended.calls \o <<"Context::tessellate">>]

\* Variant with a bug: nothing is ended or extracted unless a frame is open.
extract_draw_data_if_frame_open(self) ==
    IF self.egui_ctx.frame # "FrameOpen"
    THEN [gui |-> self, clipped_meshes |-> <<>>, textures_delta |-> <<>>, calls |-> <<>>]
    ELSE LET ended == end_frame(self)
         IN  [gui |-> [ended.gui EXCEPT !.shapes = <<>>, !.textures_delta = <<>>],
              clipped_meshes |-> Context_tessellate(ended.gui.shapes),
              textures_delta |-> ended.gui.textures_delta,
              calls |-> ended.calls \o
                        <<"take shapes", "take textures_delta", "Context::tessellate">>]

\* Gui::extract_draw_data_at_frame_end()
extract_draw_data_at_frame_end(self) ==
    LET ended == end_frame(self)
        taken_shapes == ended.gui.shapes
        taken_delta == ended.gui.textures_delta
    IN  [gui |-> [ended.gui EXCEPT !.shapes = <<>>,
                                   !.textures_delta = <<>>],
         clipped_meshes |-> Context_tessellate(taken_shapes),
         textures_delta |-> taken_delta,
         calls |-> ended.calls \o
                   <<"take shapes", "take textures_delta", "Context::tessellate">>]

\* Variant with a bug: draw_on_image waits for the GPU before it returns.
draw_on_image_waits(self, before_future, final_image) ==
    IF ~Renderer_has_renderpass(self.renderer)
    THEN Panics(self, MsgUseSubpass, <<"Renderer::has_renderpass">>)
    ELSE LET format == final_image.format IN
         IF format # B8G8R8A8_SRGB
         THEN Panics(self, MsgTargetFormat, <<"Renderer::has_renderpass", "format">>)
         ELSE LET data == extract_draw_data_at_frame_end(self)
                  d == Renderer_draw_on_image(data.gui.renderer, data.clipped_meshes,
                           data.textures_delta,
                           State_pixels_per_point(data.gui.egui_winit),
                           before_future, final_image)
              IN  [Returns([data.gui EXCEPT !.renderer = d.r], d.ret,
                           <<"Renderer::has_renderpass", "format">> \o data.calls \o
                           <<"Renderer::draw_on_image", "GpuFuture::wait">>)
                   EXCEPT !.drawn = d.drawn]

\* Variant with a bug: the target format is checked before the mode.
draw_on_image_format_first(self, before_future, final_image) ==
    LET format == final_image.format IN
    IF format # B8G8R8A8_SRGB
    THEN Panics(self, MsgTargetFormat, <<"format">>)
    ELSE IF ~Renderer_has_renderpass(self.renderer)
    THEN Panics(self, MsgUseSubpass, <<"format", "Renderer::has_renderpass">>)
    ELSE LET data == extract_draw_data_at_frame_end(self)
             d == Renderer_draw_on_image(data.gui.renderer, data.clipped_meshes,
                      data.textures_delta,
                      State_pixels_per_point(data.gui.egui_winit),
                      before_future, final_image)
         IN  [Returns([data.gui EXCEPT !.renderer = d.r], d.ret,
                      <<"format", "Renderer::has_renderpass">> \o data.calls \o
                      <<"Renderer::draw_on_image">>)
              EXCEPT !.drawn = d.drawn]

\* Variant with a bug: a target image without a format passes the format check.
draw_on_image_unformatted_passes(self, before_future, final_image) ==
    IF ~Renderer_has_renderpass(self.renderer)
    THEN Panics(self, MsgUseSubpass, <<"Renderer::has_renderpass">>)
    ELSE LET format == final_image.format IN
         IF format # NoFormat /\ format # B8G8R8A8_SRGB
         THEN Panics(self, MsgTargetFormat, <<"Renderer::has_renderpass", "format">>)
         ELSE LET data == extract_draw_data_at_frame_end(self)
                  d == Renderer_draw_on_image(data.gui.renderer, data.clipped_meshes,
                           data.textures_delta,
                           State_pixels_per_point(data.gui.egui_winit),
                           before_future, final_image)
              IN  [Returns([data.gui EXCEPT !.renderer = d.r], d.ret,
                           <<"Renderer::has_renderpass", "format">> \o data.calls \o
                           <<"Renderer::draw_on_image">>)
                   EXCEPT !.drawn = d.drawn]

\* Gui::draw_on_image(before_future, final_image)
draw_on_image(self, before_future, final_image) ==
    IF ~Renderer_has_renderpass(self.renderer)
    THEN Panics(self, MsgUseSubpass, <<"Renderer::has_renderpass">>)
    ELSE LET format == final_image.format IN
         IF format # B8G8R8A8_SRGB
         THEN Panics(self, MsgTargetFormat, <<"Renderer::has_renderpass", "format">>)
         ELSE LET data == extract_draw_data_at_frame_end(self)
                  d == Renderer_draw_on_image(data.gui.renderer, data.clipped_meshes,
                           data.textures_delta,
                           State_pixels_per_point(data.gui.egui_winit),
                           before_future, final_image)
              IN  [Returns([data.gui EXCEPT !.renderer = d.r], d.ret,
                           <<"Renderer::has_renderpass", "format">> \o data.calls \o
                           <<"Renderer::draw_on_image">>)
                   EXCEPT !.drawn = d.drawn]

\* Variant with a bug: the subpass entry point without its mode check.
draw_on_subpass_image_unchecked(self, image_dimensions) ==
    LET data == extract_draw_data_at_frame_end(self)
        d == Renderer_draw_on_subpass_image(data.gui.renderer, data.clipped_meshes,
                 data.textures_delta,
                 State_pixels_per_point(data.gui.egui_winit),
                 image_dimensions)
    IN  [Returns([data.gui EXCEPT !.renderer = d.r], d.ret,
                 data.calls \o <<"Renderer::draw_on_subpass_image">>)
         EXCEPT !.drawn = d.drawn]

\* Gui::draw_on_subpass_image(image_dimensions)
draw_on_subpass_image(self, image_dimensions) ==
    IF Renderer_has_renderpass(self.renderer)
    THEN Panics(self, MsgUseImage, <<"Renderer::has_renderpass">>)
    ELSE LET data == extract_draw_data_at_frame_end(self)
             d == Renderer_draw_on_subpass_image(data.gui.renderer, data.clipped_meshes,
                      data.textures_delta,
                      State_pixels_per_point(data.gui.egui_winit),
                      image_dimensions)
         IN  [Returns([data.gui EXCEPT !.renderer = d.r], d.ret,
                      <<"Renderer::has_renderpass">> \o data.calls \o
                      <<"Renderer::draw_on_subpass_image">>)
              EXCEPT !.drawn = d.drawn]

\* A layout closure run on the session: it paints, loads a texture or asks for
\* a cursor through the context, or draws with the entry point of the session.
layout_function(self, f) ==
    IF f = "draw"
    THEN LET r == IF Renderer_has_renderpass(self.renderer)
                  THEN draw_on_image(self, "now", [format |-> B8G8R8A8_SRGB])
                  ELSE draw_on_subpass_image(self, [width_height |-> "dims"])
         IN  [r EXCEPT !.ret = IF r.panic = NoPanic THEN Unit ELSE @]
    ELSE Returns([self EXCEPT !.egui_ctx = Context_ui(@, f)], Unit, <<"Context::ui">>)

\* Variant with a bug: the frame is begun with empty input and the accumulated
\* input is left in the input bridge.
immediate_ui_default_input(self, f) ==
    LET begun == [self EXCEPT !.egui_ctx = Context_begin_frame(@, <<>>)]
        laid == layout_function(begun, f)
    IN  [laid EXCEPT !.calls = <<"Context::begin_frame">> \o @]

\* Gui::immediate_ui(layout_function)
immediate_ui(self, f) ==
    LET raw == State_take_egui_input(self.egui_winit)
        begun == [self EXCEPT !.egui_winit = raw.st,
                              !.egui_ctx = Context_begin_frame(@, raw.raw_input)]
        laid == layout_function(begun, f)
    IN  [laid EXCEPT !.calls = <<"State::take_egui_input", "Context::begin_frame">> \o @]

\* Variant with a bug: the renderer registers the image in a copy of its map and
\* the session keeps the old one.
register_user_image_view_on_copy(self, image) ==
    LET g == Renderer_register_image(self.renderer, image)
    IN  Returns(self, g.ret, <<"Renderer::register_image">>)

\* Gui::register_user_image_view(image)
register_user_image_view(self, image) ==
    LET g == Renderer_register_image(self.renderer, image)
    IN  Returns([self EXCEPT !.renderer = g.r], g.ret, <<"Renderer::register_image">>)

\* Variant with a bug: a failed creation registers a placeholder image.
register_user_image_or_placeholder(self, image_file_bytes, upload_ok) ==
    LET created == immutable_texture_from_file(image_file_bytes, upload_ok)
        g == Renderer_register_image(self.renderer,
                 IF created.ok THEN created.image ELSE "placeholder")
    IN  Returns([self EXCEPT !.renderer = g.r], g.ret,
                <<"immutable_texture_from_file", "Renderer::register_image">>)

\* Gui::register_user_image(image_file_bytes, format)
register_user_image(self, image_file_bytes, upload_ok) ==
    LET created == immutable_texture_from_file(image_file_bytes, upload_ok) IN
    IF ~created.ok
    THEN Panics(self, MsgCreateImage, <<"immutable_texture_from_file">>)
    ELSE LET g == Renderer_register_image(self.renderer, created.image)
         IN  Returns([self EXCEPT !.renderer = g.r], g.ret,
                     <<"immutable_texture_from_file", "Renderer::register_image">>)

\* Gui::register_user_image_from_bytes(image_byte_data, dimensions, format)
register_user_image_from_bytes(self, image_byte_data, upload_ok) ==
    LET created == immutable_texture_from_bytes(image_byte_data, upload_ok) IN
    IF ~created.ok
    THEN Panics(self, MsgCreateImage, <<"immutable_texture_from_bytes">>)
    ELSE LET g == Renderer_register_image(self.renderer, created.image)
         IN  Returns([self EXCEPT !.renderer = g.r], g.ret,
                     <<"immutable_texture_from_bytes", "Renderer::register_image">>)

\* Gui::unregister_user_image(texture_id)
unregister_user_image(self, texture_id) ==
    Returns([self EXCEPT !.renderer = Renderer_unregister_image(@, texture_id)], Unit,
            <<"Renderer::unregister_image">>)

\* Gui::context(): a clone of the context handle; the session is not touched.
context(self) ==
    Returns(self, Ret("context", 0), <<>>)

\* ----------------------------------------------------------- the machine
Self ==
    [egui_ctx |-> egui_ctx, egui_winit |-> egui_winit, renderer |-> renderer,
     shapes |-> shapes, textures_delta |-> textures_delta]

Arg(s, n) == [s |-> s, n |-> n]

\* The effect of a public call: the fields as the call left them (at the point
\* of the panic, if it panicked), and the record of the call.
Commit(res, op, arg) ==
    /\ egui_ctx' = res.gui.egui_ctx
    /\ egui_winit' = res.gui.egui_winit
    /\ renderer' = res.gui.renderer
    /\ shapes' = res.gui.shapes
    /\ textures_delta' = res.gui.textures_delta
    /\ status' = IF res.panic = NoPanic THEN "ok" ELSE "panicked"
    /\ last' = [op |-> op, arg |-> arg, before |-> egui_ctx.frame, panic |-> res.panic,
                ret |-> res.ret, calls |-> res.calls, drawn |-> res.drawn]
    /\ gpu_future' = IF res.ret.kind = "future" THEN "in_flight" ELSE gpu_future
    /\ UNCHANGED <<surface, device>>

Surfaces ==
    {[query_ok |-> FALSE, formats |-> {}]} \cup
    {[query_ok |-> TRUE, formats |-> fs] : fs \in {{}, {R8G8B8A8_UNORM}, Formats}}

Devices ==
    {[max_image_array_layers |-> "2048 layers", max_image_dimension2_d |-> "16384 texels"]}

Init ==
    /\ surface \in Surfaces
    /\ device \in Devices
    /\ status = "unconstructed"
    /\ ctor = "none"
    /\ egui_ctx = NoGui.egui_ctx
    /\ egui_winit = NoGui.egui_winit
    /\ renderer = NoGui.renderer
    /\ shapes = NoGui.shapes
    /\ textures_delta = NoGui.textures_delta
    /\ last = [op |-> "none", arg |-> Arg("", 0), before |-> "NoFrameYet",
               panic |-> NoPanic, ret |-> Unit, calls |-> <<>>, drawn |-> NotDrawn]
    /\ gpu_future = "none"

New(is_overlay) ==
    /\ status = "unconstructed"
    /\ ctor' = "new"
    /\ Commit(Gui_new(surface, device, is_overlay), "new", Arg("", 0))

NewWithSubpass ==
    /\ status = "unconstructed"
    /\ ctor' = "new_with_subpass"
    /\ Commit(Gui_new_with_subpass(surface, device), "new_with_subpass", Arg("", 0))

Update(ev) ==
    /\ status = "ok"
    /\ Len(egui_winit.events) < MaxEvents
    /\ Commit(update(Self, ev), "update", Arg(ev, 0))
    /\ UNCHANGED ctor

BeginFrame ==
    /\ status = "ok"
    /\ Commit(begin_frame(Self), "begin_frame", Arg("", 0))
    /\ UNCHANGED ctor

\* what the bounds leave room for
UiAllowed(f) ==
    /\ f = "shape" => Len(egui_ctx.graphics) < MaxShapes
    /\ f = "texture" => Len(egui_ctx.tex_delta) < MaxTextures

ImmediateUi(f) ==
    /\ status = "ok"
    /\ UiAllowed(f)
    /\ Commit(immediate_ui(Self, f), "immediate_ui", Arg(f, 0))
    /\ UNCHANGED ctor

\* The caller runs its layout between begin_frame and the draw call.
Layout(f) ==
    /\ status = "ok"
    /\ egui_ctx.frame = "FrameOpen"
    /\ f # "noop"
    /\ UiAllowed(f)
    /\ Commit(layout_function(Self, f), "layout", Arg(f, 0))
    /\ UNCHANGED ctor

DrawOnImage(fmt) ==
    /\ status = "ok"
    /\ Commit(draw_on_image(Self, "before_future", [format |-> fmt]),
              "draw_on_image", Arg(fmt, 0))
    /\ UNCHANGED ctor

DrawOnSubpassImage ==
    /\ status = "ok"
    /\ Commit(draw_on_subpass_image(Self, [width_height |-> "dims"]), "draw_on_subpass_image", Arg("", 0))
    /\ UNCHANGED ctor

RegisterUserImageView(image) ==
    /\ status = "ok"
    /\ renderer.next_native_tex_id < MaxImages
    /\ Commit(register_user_image_view(Self, image), "register_user_image_view",
              Arg(image, 0))
    /\ UNCHANGED ctor

RegisterUserImage(bytes, upload_ok) ==
    /\ status = "ok"
    /\ renderer.next_native_tex_id < MaxImages
    /\ Commit(register_user_image(Self, bytes, upload_ok), "register_user_image",
              Arg(bytes, IF upload_ok THEN 1 ELSE 0))
    /\ UNCHANGED ctor

RegisterUserImageFromBytes(bytes, upload_ok) ==
    /\ status = "ok"
    /\ renderer.next_native_tex_id < MaxImages
    /\ Commit(register_user_image_from_bytes(Self, bytes, upload_ok),
              "register_user_image_from_bytes", Arg(bytes, IF upload_ok THEN 1 ELSE 0))
    /\ UNCHANGED ctor

UnregisterUserImage(texture_id) ==
    /\ status = "ok"
    /\ Commit(unregister_user_image(Self, texture_id), "unregister_user_image",
              Arg("", texture_id))
    /\ UNCHANGED ctor

GetContext ==
    /\ status = "ok"
    /\ Commit(context(Self), "context", Arg("", 0))
    /\ UNCHANGED ctor

\* The GPU finishes the work of the future draw_on_image returned; the session
\* takes no part in it.
GpuCompletes ==
    /\ status = "ok"
    /\ gpu_future = "in_flight"
    /\ gpu_future' = "signalled"
    /\ last' = [op |-> "gpu_completes", arg |-> Arg("", 0), before |-> egui_ctx.frame,
                panic |-> NoPanic, ret |-> Unit, calls |-> <<>>, drawn |-> NotDrawn]
    /\ UNCHANGED <<surface, device, status, ctor, egui_ctx, egui_winit, renderer,
                   shapes, textures_delta>>

Next ==
    \/ \E o \in BOOLEAN : New(o)
    \/ NewWithSubpass
    \/ \E ev \in WindowEvents : Update(ev)
    \/ BeginFrame
    \/ \E f \in Layouts : ImmediateUi(f)
    \/ \E f \in UiCalls : Layout(f)
    \/ \E fmt \in TargetFormats : DrawOnImage(fmt)
    \/ DrawOnSubpassImage
    \/ \E image \in Images : RegisterUserImageView(image)
    \/ \E bytes \in ImageFiles, ok \in BOOLEAN : RegisterUserImage(bytes, ok)
    \/ \E bytes \in RawBuffers, ok \in BOOLEAN : RegisterUserImageFromBytes(bytes, ok)
    \/ \E id \in 0..(MaxImages - 1) : UnregisterUserImage(id)
    \/ GetContext
    \/ GpuCompletes

Spec == Init /\ [][Next]_vars

\* ---------------------------------------------------------------- claims
Count(seq, x) == Cardinality({i \in 1..Len(seq) : seq[i] = x})
Has(seq, x) == \E i \in 1..Len(seq) : seq[i] = x
\* the position of the only x in seq
Pos(seq, x) == CHOOSE i \in 1..Len(seq) : seq[i] = x

DrawOps == {"draw_on_image", "draw_on_subpass_image"}
\* The call drew: a draw entry point, or a layout closure that called one.
CalledDraw(l) ==
    \/ l.op \in DrawOps
    \/ l.op = "immediate_ui" /\ l.arg.s = "draw"
Drew(l) == CalledDraw(l) /\ l.panic = NoPanic

\* C1: a session built by Gui::new panics in every draw_on_subpass_image, and a
\* session built by Gui::new_with_subpass panics in every draw_on_image, in any
\* frame state and after any calls; the message names the other entry point, and
\* nothing of the frame is ended or handed to the renderer.
ModeExclusivity ==
    /\ (ctor = "new" /\ last.op = "draw_on_subpass_image") =>
           /\ status = "panicked"
           /\ last.panic = MsgUseImage
           /\ ~last.drawn.called
           /\ ~Has(last.calls, "Context::end_frame")
    /\ (ctor = "new_with_subpass" /\ last.op = "draw_on_image") =>
           /\ status = "panicked"
           /\ last.panic = MsgUseSubpass
           /\ ~last.drawn.called
           /\ ~Has(last.calls, "Context::end_frame")

\* C1 witness: the subpass entry point called on a render-pass session with a
\* frame open, shapes painted and a user image registered.
WrongEntryPointCalled ==
    /\ ctor = "new"
    /\ last.op = "draw_on_subpass_image"
    /\ last.before = "FrameOpen"
    /\ egui_ctx.graphics # <<>>
    /\ renderer.texture_images # {}

\* C2: the constructor fixes the render-path mode (Gui::new: the renderer owns a
\* render pass; Gui::new_with_subpass: it does not), and the mode is the same in
\* every state reached afterwards, whatever was called and whether it panicked.
ModeFixedByConstructor ==
    (status # "unconstructed" /\ renderer.created) =>
        (Renderer_has_renderpass(renderer) <=> ctor = "new")

\* C2 witness: a subpass session after a frame was drawn and an image
\* registered.
SubpassSessionAfterDraw ==
    /\ ctor = "new_with_subpass"
    /\ status = "ok"
    /\ last.op = "draw_on_subpass_image"
    /\ last.drawn.meshes # <<>>
    /\ renderer.texture_images # {}
    /\ ~Renderer_has_renderpass(renderer)

\* C3: every draw call that passes its checks fills the two pending buffers once
\* (in its end_frame, after one frame-end of the context) and takes them once,
\* after they were filled, and leaves both empty; no other call, and no draw call
\* that panics, fills or takes them.
BuffersFilledAndTakenOncePerDraw ==
    /\ Drew(last) =>
           /\ Count(last.calls, "Context::end_frame") = 1
           /\ Count(last.calls, "store shapes") = 1
           /\ Count(last.calls, "store textures_delta") = 1
           /\ Count(last.calls, "take shapes") = 1
           /\ Count(last.calls, "take textures_delta") = 1
           /\ Pos(last.calls, "store shapes") < Pos(last.calls, "take shapes")
           /\ Pos(last.calls, "store textures_delta") < Pos(last.calls, "take textures_delta")
           /\ shapes = <<>>
           /\ textures_delta = <<>>
    /\ ~Drew(last) =>
           \A c \in {"store shapes", "store textures_delta", "take shapes",
                     "take textures_delta"} : ~Has(last.calls, c)

\* C3 witness: a draw of a frame that painted a shape and changed a texture.
DrewFrameWithContent ==
    /\ Drew(last)
    /\ last.drawn.meshes # <<>>
    /\ last.drawn.delta # <<>>

\* C4: no draw call ends a frame and extracts draw data when the frame was
\* already closed by an earlier draw and not begun again, so the data of one
\* begin_frame is extracted at most once.
ExtractAtMostOncePerBeginFrame ==
    (Drew(last) /\ ~Has(last.calls, "Context::begin_frame")) =>
        last.before # "FrameClosed"

\* C4 as amended: every draw call that passes its checks ends a frame and
\* extracts exactly once, in whatever frame state it is called (also with no
\* frame open); the delta the renderer is handed is the one the context had
\* accumulated since its previous frame-end, and after the call neither the
\* context nor the pending buffer holds it, so no delta is handed over twice.
ExtractOncePerDrawAndDeltaHandedOnce ==
    [][Drew(last') =>
           /\ Count(last'.calls, "Context::end_frame") = 1
           /\ Count(last'.calls, "Context::tessellate") = 1
           /\ last'.drawn.called
           /\ last'.drawn.delta = egui_ctx.tex_delta
           /\ egui_ctx'.tex_delta = <<>>
           /\ textures_delta' = <<>>]_vars

\* C4 witness: a second draw with no begin_frame since the draw before it.
DrewAgainWithoutBegin ==
    /\ Drew(last)
    /\ ~Has(last.calls, "Context::begin_frame")
    /\ last.before = "FrameClosed"
    /\ Has(last.calls, "Context::end_frame")

\* C5: the frame-begin of the context is performed only by calls that start with
\* no frame open.
BeginFrameOnlyFromIdle ==
    Has(last.calls, "Context::begin_frame") => last.before # "FrameOpen"

\* C5 as amended: begin_frame and immediate_ui perform the frame-begin of the
\* context once, with the input just taken from the input bridge, in whatever
\* frame state they are called, so a call made with a frame open begins that
\* frame again; after begin_frame a frame is open; and an open frame is closed by
\* nothing but a draw call that passes its checks.
BeginFrameInEveryState ==
    /\ last.op \in {"begin_frame", "immediate_ui"} =>
           /\ Count(last.calls, "Context::begin_frame") = 1
           /\ Count(last.calls, "State::take_egui_input") = 1
           /\ Pos(last.calls, "State::take_egui_input") < Pos(last.calls, "Context::begin_frame")
    /\ last.op = "begin_frame" => egui_ctx.frame = "FrameOpen"
    /\ (last.before = "FrameOpen" /\ egui_ctx.frame # "FrameOpen") => Drew(last)

\* C5 witness: begin_frame called with a frame open in which a shape was painted.
BeganFrameWhileOpen ==
    /\ last.op = "begin_frame"
    /\ last.before = "FrameOpen"
    /\ egui_ctx.graphics # <<>>
    /\ Has(last.calls, "Context::begin_frame")

\* C6: both constructors panic when the surface does not support B8G8R8A8_SRGB,
\* before the renderer is built and before the input-bridge state is created;
\* when it does, they return a session with both pending buffers empty.
ConstructionChecksFormatFirst ==
    last.op \in {"new", "new_with_subpass"} =>
        IF surface.query_ok /\ B8G8R8A8_SRGB \in surface.formats
        THEN /\ status = "ok"
             /\ renderer.created
             /\ egui_winit.created
             /\ shapes = <<>>
             /\ textures_delta = <<>>
        ELSE /\ status = "panicked"
             /\ surface.query_ok => last.panic = MsgSwapchainFormat
             /\ ~renderer.created
             /\ ~egui_winit.created
             /\ \A c \in {"Renderer::new_with_render_pass", "Renderer::new_with_subpass",
                          "State::new"} : ~Has(last.calls, c)

\* C6 witness: Gui::new on a surface that supports only another format.
ConstructionRefused ==
    /\ last.op = "new"
    /\ surface.query_ok
    /\ surface.formats = {R8G8B8A8_UNORM}
    /\ status = "panicked"

\* C7: on a render-pass session draw_on_image panics with the format message
\* for a target of any other format or of none, without ending the frame or
\* calling the renderer; for a B8G8R8A8_SRGB target it calls the renderer with
\* that target and returns the renderer's future.
DrawOnImageChecksTargetFormat ==
    (ctor = "new" /\ last.op = "draw_on_image") =>
        IF last.arg.s # B8G8R8A8_SRGB
        THEN /\ status = "panicked"
             /\ last.panic = MsgTargetFormat
             /\ ~last.drawn.called
             /\ ~Has(last.calls, "Renderer::draw_on_image")
             /\ ~Has(last.calls, "Context::end_frame")
        ELSE /\ status = "ok"
             /\ last.drawn.called
             /\ last.drawn.target.format = B8G8R8A8_SRGB
             /\ last.calls[Len(last.calls)] = "Renderer::draw_on_image"
             /\ last.ret.kind = "future"

\* C7 witness: a target without a format, drawn on with a frame open.
DrewOnUnformattedTarget ==
    /\ ctor = "new"
    /\ last.op = "draw_on_image"
    /\ last.arg.s = NoFormat
    /\ last.before = "FrameOpen"
    /\ status = "panicked"

\* C8: immediate_ui(f) leaves the session, the panic, the result and the calls
\* made exactly as begin_frame() followed by f run on the session does, from the
\* same state and the same accumulated input; and unless f draws, the frame is
\* open and not ended when immediate_ui returns.
ImmediateUiIsBeginFrameThenLayout ==
    [][\A f \in Layouts :
           ImmediateUi(f) =>
               LET b == begin_frame(Self)
                   r == layout_function(b.gui, f)
               IN  /\ egui_ctx' = r.gui.egui_ctx
                   /\ egui_winit' = r.gui.egui_winit
                   /\ renderer' = r.gui.renderer
                   /\ shapes' = r.gui.shapes
                   /\ textures_delta' = r.gui.textures_delta
                   /\ last'.panic = r.panic
                   /\ last'.ret = r.ret
                   /\ last'.drawn = r.drawn
                   /\ last'.calls = b.calls \o r.calls
                   /\ f # "draw" =>
                          /\ egui_ctx'.frame = "FrameOpen"
                          /\ ~Has(last'.calls, "Context::end_frame")]_vars

\* C8 witness: immediate_ui with a painting closure, after an event was
\* forwarded: the frame holds the event and the shape.
ImmediateUiTookInputAndPainted ==
    /\ last.op = "immediate_ui"
    /\ last.arg.s = "shape"
    /\ egui_ctx.input # <<>>
    /\ egui_ctx.graphics # <<>>
    /\ egui_ctx.frame = "FrameOpen"

RegisterOps ==
    {"register_user_image_view", "register_user_image", "register_user_image_from_bytes"}
Registered(r) == {t.id : t \in r.texture_images}

\* C9: a register call that returns hands back an id that was not registered
\* when it was called, mapped to its image from then on; a registered id keeps
\* its image through every call but unregister_user_image of that id; and
\* unregister_user_image(T) removes T and nothing else.
TextureIdsFreshAndStable ==
    [][/\ (last'.op \in RegisterOps /\ last'.panic = NoPanic) =>
              /\ last'.ret.kind = "texture_id"
              /\ last'.ret.val \notin Registered(renderer)
              /\ \E t \in renderer'.texture_images : t.id = last'.ret.val
              /\ \A t \in renderer.texture_images : t \in renderer'.texture_images
       /\ \A t \in renderer.texture_images :
              \/ t \in renderer'.texture_images
              \/ last'.op = "unregister_user_image" /\ last'.arg.n = t.id
       /\ last'.op = "unregister_user_image" =>
              renderer'.texture_images =
                  {t \in renderer.texture_images : t.id # last'.arg.n}
       /\ \A t, u \in renderer'.texture_images : t.id = u.id => t = u]_vars

\* C9 witness: two images registered, the first unregistered, the second still
\* mapped.
OneOfTwoUnregistered ==
    /\ last.op = "unregister_user_image"
    /\ last.arg.n = 0
    /\ Registered(renderer) = {1}

\* whether the creation of the image of a register call failed
CreationFailed(l) ==
    \/ l.op = "register_user_image" /\ ~(l.arg.s = "valid_png" /\ l.arg.n = 1)
    \/ l.op = "register_user_image_from_bytes" /\ ~(l.arg.s = "raw_2x2" /\ l.arg.n = 1)

\* C10: register_user_image and register_user_image_from_bytes panic when the
\* image cannot be decoded or uploaded: nothing is returned, the renderer's
\* register operation is not called and the registered images are as before.
FailedCreationIsFatal ==
    [][CreationFailed(last') =>
           /\ status' = "panicked"
           /\ last'.panic = MsgCreateImage
           /\ last'.ret.kind = "never"
           /\ ~Has(last'.calls, "Renderer::register_image")
           /\ renderer' = renderer]_vars

\* C10 witness: the upload of well-formed raw pixels failed, with an image
\* registered before.
UploadFailed ==
    /\ last.op = "register_user_image_from_bytes"
    /\ last.arg.s = "raw_2x2"
    /\ last.arg.n = 0
    /\ status = "panicked"
    /\ renderer.texture_images # {}

\* C11: a draw_on_image that returns has not waited for the GPU: its future is in
\* flight, no frame is open and both pending buffers are empty; right after the
\* draw and right after the future is signalled begin_frame can be called, and
\* after that begin_frame a draw, whether the future is in flight or signalled.
NotBlockedByCompletionSignal ==
    /\ (last.op = "draw_on_image" /\ last.panic = NoPanic) =>
           /\ status = "ok"
           /\ gpu_future = "in_flight"
           /\ ~Has(last.calls, "GpuFuture::wait")
           /\ egui_ctx.frame = "FrameClosed"
           /\ shapes = <<>>
           /\ textures_delta = <<>>
    /\ (status = "ok" /\ last.op \in {"draw_on_image", "gpu_completes"}) =>
           ENABLED BeginFrame
    /\ (status = "ok" /\ last.op = "begin_frame" /\ gpu_future # "none") =>
           ENABLED DrawOnImage(B8G8R8A8_SRGB)

\* C11 witness: the next frame was begun and painted while the future of the
\* draw before it is still in flight.
NextFramePaintedWhileGpuBusy ==
    /\ gpu_future = "in_flight"
    /\ egui_ctx.frame = "FrameOpen"
    /\ egui_ctx.graphics # <<>>
    /\ last.op = "layout"

RendererDrawCalls == {"Renderer::draw_on_image", "Renderer::draw_on_subpass_image"}

\* C12: in every draw call that passes its checks the renderer is handed the
\* texture delta and the tessellation of the shape list that the frame-end of
\* the context made in this call returned, and nothing else; the call runs the
\* frame-end, then takes the buffers, then tessellates, then calls the renderer.
RendererGetsDataOfThisFrameEnd ==
    [][Drew(last') =>
           LET out == Context_end_frame(egui_ctx)
               c == last'.calls
           IN  /\ last'.drawn.called
               /\ last'.drawn.delta = out.textures_delta
               /\ last'.drawn.meshes = Context_tessellate(out.shapes)
               /\ Count(c, "Context::end_frame") = 1
               /\ Count(c, "Context::tessellate") = 1
               /\ Count(c, "take shapes") = 1
               /\ Count(c, "take textures_delta") = 1
               /\ Pos(c, "Context::end_frame") < Pos(c, "take shapes")
               /\ Pos(c, "Context::end_frame") < Pos(c, "take textures_delta")
               /\ Pos(c, "take shapes") < Pos(c, "Context::tessellate")
               /\ Pos(c, "take textures_delta") < Pos(c, "Context::tessellate")
               /\ Pos(c, "Context::tessellate") < Len(c)
               /\ c[Len(c)] \in RendererDrawCalls]_vars

\* C12 witness: a subpass draw of a frame with a shape and a texture change.
SubpassDrewShapeAndTexture ==
    /\ last.op = "draw_on_subpass_image"
    /\ last.panic = NoPanic
    /\ Len(last.drawn.meshes) = MaxShapes
    /\ last.drawn.delta # <<>>

\* C13: every frame-end of the context is followed, in the same call, by one
\* forwarding of its platform output to the input bridge, which applies it; the
\* forwarding comes before the pending buffers are stored and before the
\* renderer is called; a draw call that panics forwards nothing.
PlatformOutputForwardedOncePerFrameEnd ==
    [][LET c == last'.calls IN
       /\ Count(c, "State::handle_platform_output") = Count(c, "Context::end_frame")
       /\ Count(c, "Context::end_frame") <= 1
       /\ Has(c, "Context::end_frame") =>
              /\ Pos(c, "State::handle_platform_output") = Pos(c, "Context::end_frame") + 1
              /\ Count(c, "store shapes") = 1
              /\ Count(c, "store textures_delta") = 1
              /\ Pos(c, "State::handle_platform_output") < Pos(c, "store shapes")
              /\ Pos(c, "State::handle_platform_output") < Pos(c, "store textures_delta")
              /\ c[Len(c)] \in RendererDrawCalls
              /\ egui_winit'.cursor = egui_ctx.output
       /\ (CalledDraw(last') /\ last'.panic # NoPanic) =>
              /\ ~Has(c, "State::handle_platform_output")
              /\ egui_winit' = egui_winit]_vars

\* C13 witness: a draw applied the cursor the frame asked for.
CursorRequestApplied ==
    /\ Drew(last)
    /\ egui_winit.cursor = "PointingHand"

\* C14: a call that begins a frame hands the context exactly the events the
\* input bridge accumulated and leaves the bridge with none; update appends its
\* event to the bridge; no other call touches the bridge's events or the input
\* of the frame.  So an event reaches the next frame begun and no other.
InputDeliveredToNextFrameOnly ==
    [][LET begins == Has(last'.calls, "Context::begin_frame") IN
       /\ begins =>
              /\ egui_ctx'.input = egui_winit.events
              /\ egui_winit'.events = <<>>
       /\ last'.op = "update" =>
              /\ egui_winit'.events = Append(egui_winit.events, last'.arg.s)
              /\ egui_ctx'.input = egui_ctx.input
       /\ (~begins /\ last'.op # "update") =>
              /\ egui_winit'.events = egui_winit.events
              /\ egui_ctx'.input = egui_ctx.input]_vars

\* C14 witness: begin_frame delivered the forwarded events and left none.
EventsDeliveredToFrame ==
    /\ last.op = "begin_frame"
    /\ Len(egui_ctx.input) = MaxEvents
    /\ egui_winit.events = <<>>

\* C15: the maximum texture side the input-bridge state is created with is the
\* device's maximum 2D image dimension.
MaxTextureSideIsMaxImageDimension ==
    egui_winit.created =>
        egui_winit.max_texture_side = device.max_image_dimension2_d

\* C16: a draw call that panics (wrong entry point, or wrong target format)
\* leaves the five fields as they were: the context's frame is not ended, an
\* open frame stays open, the buffers keep their contents and the renderer is
\* not called; draw_on_image checks the mode before the target format.
FailedDrawChangesNothing ==
    [][(last'.op \in DrawOps /\ last'.panic # NoPanic) =>
           /\ egui_ctx' = egui_ctx
           /\ egui_winit' = egui_winit
           /\ renderer' = renderer
           /\ shapes' = shapes
           /\ textures_delta' = textures_delta
           /\ ~Has(last'.calls, "Context::end_frame")
           /\ ~last'.drawn.called
           /\ last'.calls[1] = "Renderer::has_renderpass"
           /\ (last'.op = "draw_on_image" /\ ~Renderer_has_renderpass(renderer)) =>
                  last'.panic = MsgUseSubpass
           /\ last'.panic = MsgTargetFormat =>
                  last'.calls = <<"Renderer::has_renderpass", "format">>]_vars

\* C16 witness: draw_on_image with a target without a format on a subpass
\* session, with a frame open in which a shape was painted.
WrongModeAndFormatWithOpenFrame ==
    /\ ctor = "new_with_subpass"
    /\ last.op = "draw_on_image"
    /\ last.arg.s = NoFormat
    /\ status = "panicked"
    /\ egui_ctx.frame = "FrameOpen"
    /\ egui_ctx.graphics # <<>>

\* C17: update, the register calls, unregister_user_image and context leave the
\* frame state, both pending buffers and the mode as they were; update changes
\* nothing but the events of the input bridge, the register and unregister calls
\* nothing but the renderer's registered images, and context nothing at all.
QuietCallsTouchOnlyTheirOwnState ==
    [][/\ last'.op \in {"update", "unregister_user_image", "context"} \cup RegisterOps =>
              /\ egui_ctx' = egui_ctx
              /\ shapes' = shapes
              /\ textures_delta' = textures_delta
              /\ Renderer_has_renderpass(renderer') = Renderer_has_renderpass(renderer)
       /\ last'.op = "update" =>
              /\ renderer' = renderer
              /\ egui_winit' = [egui_winit EXCEPT !.events = egui_winit'.events]
       /\ last'.op \in {"unregister_user_image"} \cup RegisterOps =>
              /\ egui_winit' = egui_winit
              /\ renderer' = [renderer EXCEPT
                                 !.texture_images = renderer'.texture_images,
                                 !.next_native_tex_id = renderer'.next_native_tex_id]
       /\ last'.op = "context" =>
              /\ egui_winit' = egui_winit
              /\ renderer' = renderer]_vars

\* C17 witness: update called with a frame open in which a shape was painted.
UpdatedWithOpenFrame ==
    /\ last.op = "update"
    /\ last.before = "FrameOpen"
    /\ egui_ctx.frame = "FrameOpen"
    /\ egui_ctx.graphics # <<>>
    /\ egui_winit.events # <<>>

\* C18: in every state between two public calls, before construction, after a
\* draw and after a panic, both pending buffers are empty.
PendingBuffersEmptyBetweenCalls ==
    /\ shapes = <<>>
    /\ textures_delta = <<>>

\* C18 witness: draw_on_image returned after drawing a frame with a shape and a
\* texture change, and nothing is left buffered.
NothingBufferedAfterDraw ==
    /\ last.op = "draw_on_image"
    /\ last.drawn.meshes # <<>>
    /\ last.drawn.delta # <<>>
    /\ egui_ctx.frame = "FrameClosed"
    /\ shapes = <<>>
    /\ textures_delta = <<>>

====
